---- MODULE Spec2Model ----
(***************************************************************************)
(* Trivia API (backend/flaskr/__init__.py): the request handlers over the  *)
(* Question and Category tables, the pagination helper and the error       *)
(* handlers.  Each request is served by one worker; a handler that issues  *)
(* a write followed by a re-read takes one step per database statement.    *)
(***************************************************************************)
EXTENDS Integers, Sequences, FiniteSets, TLC

VARIABLES
  question_table,   \* rows of the Question table, in fetch order
  category_table,   \* rows of the Category table, in fetch order
  id_seq,           \* next identifier the data store assigns to a Question
  pc,               \* per worker: the position of the request it is serving
  resp,             \* the response sent last
  deleted,          \* history: identifiers whose row a delete has removed
  created           \* history: identifiers assigned by create_question

vars == <<question_table, category_table, id_seq, pc, resp, deleted, created>>

(***************************************************************************)
(* Bounds of the model.                                                    *)
(***************************************************************************)
MaxSeed == 1        \* most pre-seeded questions when requests run concurrently
MaxOver == 1        \* most pre-seeded questions beyond one page, served in turn
MaxCreate == 1      \* number of questions created in one behaviour

Workers == {"w1", "w2"}

(***************************************************************************)
(* Program constants.                                                      *)
(***************************************************************************)
QUESTIONS_PER_PAGE == 10
BOOKS_PER_PAGE == 10

(***************************************************************************)
(* Values.  NULL is the SQL NULL / Python None of an integer column.       *)
(* A JSON value or a query-string argument is a record: t is its kind, n   *)
(* its integer, s its characters, l its list items; an object carries the  *)
(* value of its "id" key in n.                                             *)
(***************************************************************************)
NULL == -1

J(t, n, s, l) == [t |-> t, n |-> n, s |-> s, l |-> l]
Absent == J("absent", 0, <<>>, <<>>)
JNull == J("null", 0, <<>>, <<>>)
JInt(n) == J("int", n, <<>>, <<>>)
JStr(s) == J("str", 0, s, <<>>)
JObj(id) == J("obj", id, <<>>, <<>>)
JList(l) == J("list", 0, <<>>, l)

Min(a, b) == IF a < b THEN a ELSE b
Max(a, b) == IF a > b THEN a ELSE b

DigitChars == {"0", "1", "2", "3", "4", "5", "6", "7", "8", "9"}
DigitVal(c) ==
  CASE c = "0" -> 0 [] c = "1" -> 1 [] c = "2" -> 2 [] c = "3" -> 3
    [] c = "4" -> 4 [] c = "5" -> 5 [] c = "6" -> 6 [] c = "7" -> 7
    [] c = "8" -> 8 [] c = "9" -> 9

RECURSIVE DigitsVal(_)
DigitsVal(s) ==
  IF s = <<>> THEN 0
  ELSE 10 * DigitsVal(SubSeq(s, 1, Len(s) - 1)) + DigitVal(s[Len(s)])

AllDigits(s) == s # <<>> /\ \A i \in 1..Len(s) : s[i] \in DigitChars

\* Python int(str): an optional sign, then decimal digits; ValueError otherwise.
ParseInt(s) ==
  IF s # <<>> /\ s[1] \in {"-", "+"}
  THEN IF AllDigits(Tail(s))
       THEN [ok |-> TRUE,
             v |-> IF s[1] = "-" THEN 0 - DigitsVal(Tail(s)) ELSE DigitsVal(Tail(s))]
       ELSE [ok |-> FALSE, v |-> 0]
  ELSE IF AllDigits(s) THEN [ok |-> TRUE, v |-> DigitsVal(s)]
       ELSE [ok |-> FALSE, v |-> 0]

\* Python int(x) of a JSON value: int -> itself, str -> parsed, None -> TypeError.
int(j) ==
  CASE j.t = "int" -> [ok |-> TRUE, v |-> j.n]
    [] j.t = "str" -> ParseInt(j.s)
    [] OTHER -> [ok |-> FALSE, v |-> 0]

\* request.args.get(key, default, type=int): the default when the key is
\* absent or its conversion raises ValueError.
args_get_int(arg, default) ==
  IF arg.t = "absent" THEN default
  ELSE IF ParseInt(arg.s).ok THEN ParseInt(arg.s).v ELSE default

\* isinstance(x, int) of a query-string argument or None.
isinstance_int(j) == j.t = "int"

\* Python seq[start:end] with negative indices counted from the end.
PySlice(seq, start, end) ==
  LET n == Len(seq)
      lo == IF start < 0 THEN Max(start + n, 0) ELSE Min(start, n)
      hi == IF end < 0 THEN Max(end + n, 0) ELSE Min(end, n)
  IN IF lo < hi THEN SubSeq(seq, lo + 1, hi) ELSE <<>>

\* Case folding of the characters the model uses.
LowerChar(c) ==
  CASE c = "T" -> "t" [] c = "I" -> "i" [] c = "A" -> "a" [] OTHER -> c

Lower(s) == [i \in 1..Len(s) |-> LowerChar(s[i])]

Contains(text, term) ==
  \E k \in 0..(Len(text) - Len(term)) :
    \A i \in 1..Len(term) : text[k + i] = term[i]

\* SQL ILIKE '%term%' on a text column.
ilike(text, term) == Contains(Lower(text), Lower(term))

Ids(rows) == {rows[i].id : i \in 1..Len(rows)}

InList(x, l) == \E i \in 1..Len(l) : l[i] = x

(***************************************************************************)
(* Data access layer (models.py): the Question and Category models.        *)
(***************************************************************************)
\* Question.format(): the JSON projection of a row.
format(q) ==
  [id |-> q.id, question |-> q.question, answer |-> q.answer,
   category |-> q.category, difficulty |-> q.difficulty]

\* Category.format().
category_format(c) == [id |-> c.id, type |-> c.type]

format_all(rows) == [i \in 1..Len(rows) |-> format(rows[i])]

categories_format_all(rows) == [i \in 1..Len(rows) |-> category_format(rows[i])]

\* Query.filter_by(category=c).all(): SQL equality never matches NULL.
filter_by_category(rows, c) ==
  SelectSeq(rows, LAMBDA q : q.category # NULL /\ c # NULL /\ q.category = c)

\* Query.filter_by(id=i).one_or_none() / Query.get(i): <<row>> or <<>> for None.
one_or_none(rows, i) == SelectSeq(rows, LAMBDA q : q.id = i)

\* Query.filter(Question.question.ilike('%' + term + '%')).all()
filter_ilike(rows, term) == SelectSeq(rows, LAMBDA q : ilike(q.question, term))

\* Question(...).insert(): the data store assigns the next identifier.
insert(rows, next, q) ==
  Append(rows, [id |-> next, question |-> q.question, answer |-> q.answer,
                category |-> q.category, difficulty |-> q.difficulty])

\* question.delete()
delete(rows, i) == SelectSeq(rows, LAMBDA q : q.id # i)

(***************************************************************************)
(* Requests and responses.                                                 *)
(***************************************************************************)
NoBody ==
  [searchTerm |-> Absent, question |-> Absent, answer |-> Absent,
   category |-> Absent, difficulty |-> Absent,
   quiz_category |-> Absent, previous_questions |-> Absent]

NoReq ==
  [question_id |-> 0, category_id |-> 0, page |-> Absent, category |-> Absent,
   body |-> NoBody]

\* The keys of every response body; a key a response does not carry keeps
\* the value below.  question is <<>> for JSON null.
NoKeys ==
  [status |-> 0, success |-> FALSE, error |-> 0, message |-> "",
   questions |-> <<>>, all_questions |-> <<>>, total_questions |-> NULL,
   deleted |-> NULL, created |-> NULL, question |-> <<>>,
   current_category |-> <<>>, categories |-> <<>>, total_categories |-> NULL]

\* @app.errorhandler(404)
not_found ==
  [NoKeys EXCEPT !.status = 404, !.success = FALSE, !.error = 404,
                 !.message = "resource not found"]

\* @app.errorhandler(422)
unprocessable ==
  [NoKeys EXCEPT !.status = 422, !.success = FALSE, !.error = 422,
                 !.message = "unprocessable"]

\* @app.errorhandler(400)
bad_request ==
  [NoKeys EXCEPT !.status = 400, !.success = FALSE, !.error = 400,
                 !.message = "bad request"]

\* @app.errorhandler(500): an exception no handler catches.
internal_server_error ==
  [NoKeys EXCEPT !.status = 500, !.success = FALSE, !.error = 500,
                 !.message = "internal server error"]

\* abort(code): raises the HTTP error the matching error handler renders.
abort(code) ==
  CASE code = 404 -> not_found
    [] code = 422 -> unprocessable
    [] code = 400 -> bad_request
    [] OTHER -> internal_server_error

\* try: ... except: abort(422) -- the bare except also catches the
\* exception an abort() inside the try block raises.
try_except(r) == IF r.status = 200 THEN r ELSE abort(422)

Sent(w, op, req, r) == [op |-> op, req |-> req] @@ r

(***************************************************************************)
(* Pagination helper.                                                      *)
(***************************************************************************)
paginate_questions(page_arg, questions) ==
  LET page == args_get_int(page_arg, 1)
      start == (page - 1) * BOOKS_PER_PAGE
      end == start + BOOKS_PER_PAGE
  IN PySlice(format_all(questions), start, end)

(***************************************************************************)
(* Request handlers: the response each computes from the tables it reads.  *)
(***************************************************************************)
Ok == [NoKeys EXCEPT !.status = 200, !.success = TRUE]

\* An exception other than an abort(): uncaught, Flask renders it with the
\* 500 handler; inside a try block the bare except turns it into abort(422).
Raised == internal_server_error

\* GET /categories
get_all_categories(cats) ==
  LET categories == categories_format_all(cats)
  IN IF Len(categories) = 0 THEN abort(404)
     ELSE [Ok EXCEPT !.categories = categories,
                     !.total_categories = Len(categories)]

\* GET /questions
get_all_questions(cats, rows, category_arg, page_arg) ==
  LET categories == categories_format_all(cats)
      filtered == isinstance_int(category_arg)
      questions == IF filtered THEN filter_by_category(rows, category_arg.n)
                   ELSE rows
      found == one_or_none(cats, category_arg.n)
      current_category == IF filtered THEN categories_format_all(found)
                          ELSE categories
      current_questions == paginate_questions(page_arg, questions)
  IN IF filtered /\ found = <<>> THEN Raised
     ELSE IF Len(current_questions) = 0 THEN abort(404)
     ELSE [Ok EXCEPT !.questions = current_questions,
                     !.total_questions = Len(questions),
                     !.current_category = current_category,
                     !.categories = categories]

\* DELETE /questions/<id>: the lookup finds nothing, abort(404) inside try.
delete_question_missing == try_except(abort(404))

\* DELETE /questions/<id>: the re-read after question.delete().
delete_question_reread(rows, question_id, page_arg) ==
  LET current_questions == paginate_questions(page_arg, rows)
  IN try_except([Ok EXCEPT !.deleted = question_id,
                           !.all_questions = current_questions,
                           !.total_questions = Len(current_questions)])

\* create_question: the coercions made before the try block.
create_question_coerce(body) ==
  LET c == int(body.category)
      d == int(body.difficulty)
  IN [ok |-> (body.category.t = "absent" \/ c.ok)
             /\ (body.difficulty.t = "absent" \/ d.ok),
      question |-> body.question.s,
      answer |-> body.answer.s,
      category |-> IF body.category.t = "absent" THEN NULL ELSE c.v,
      difficulty |-> IF body.difficulty.t = "absent" THEN NULL ELSE d.v]

\* Variant of create_question_reread that reports the number of questions
\* in place of the identifier the store assigned.
create_question_reread_count(rows, id, page_arg) ==
  LET current_questions == paginate_questions(page_arg, rows)
  IN try_except([Ok EXCEPT !.created = Len(rows),
                           !.all_questions = current_questions,
                           !.total_questions = Len(current_questions)])

\* create_question: the re-read after question.insert().
create_question_reread(rows, id, page_arg) ==
  LET current_questions == paginate_questions(page_arg, rows)
  IN try_except([Ok EXCEPT !.created = id,
                           !.all_questions = current_questions,
                           !.total_questions = Len(current_questions)])

\* search_questions
search_questions(rows, body) ==
  LET search_term == body.searchTerm
      results == format_all(filter_ilike(rows, search_term.s))
  IN try_except(IF search_term.t # "str" THEN Raised
                ELSE [Ok EXCEPT !.total_questions = Len(results),
                                !.questions = results])

\* GET /categories/<id>/questions
get_questions_by_category(cats, rows, category_id, page_arg) ==
  LET questions == filter_by_category(rows, category_id)
      current_questions == paginate_questions(page_arg, questions)
      current_category == one_or_none(cats, category_id)
  IN IF Len(questions) = 0 THEN abort(404)
     ELSE try_except(
       IF current_category = <<>> THEN Raised
       ELSE [Ok EXCEPT !.questions = current_questions,
                       !.total_questions = Len(questions),
                       !.current_category = categories_format_all(current_category)])

\* POST /quizzes
play_quiz(rows, body) ==
  LET category == body.quiz_category
      questions == filter_by_category(rows, category.n)
      question_ids == [i \in 1..Len(questions) |-> questions[i].id]
      previous_questions == body.previous_questions
      filtered_questions_list ==
        SelectSeq(question_ids, LAMBDA id : ~InList(id, previous_questions.l))
  IN try_except(
       IF category.t # "obj" THEN Raised
       ELSE IF Len(questions) = 0 THEN abort(404)
       ELSE IF previous_questions.t # "absent"
       THEN IF previous_questions.t # "list" THEN Raised
            ELSE [Ok EXCEPT !.question =
                    IF filtered_questions_list # <<>>
                    THEN format_all(one_or_none(rows, filtered_questions_list[1]))
                    ELSE <<>>]
       \* question is still the loop variable, a Question model object,
       \* which jsonify cannot serialise
       ELSE Raised)

(***************************************************************************)
(* Inputs of the requests.                                                 *)
(***************************************************************************)
PageArgs == {Absent, JStr(<<"2">>)}
WritePageArgs == {Absent}
CategoryArgs == {Absent, JStr(<<"1">>)}
CategoryIds == {1, 2, 3}

Text1 == <<"T", "i">>
Text2 == <<"a", "t">>

CreateBodies ==
  { [NoBody EXCEPT !.question = JStr(Text1), !.answer = JStr(<<"a">>),
                   !.category = JInt(1), !.difficulty = JInt(1)],
    [NoBody EXCEPT !.question = JStr(Text2), !.answer = JStr(<<"a">>),
                   !.difficulty = JStr(<<"1">>)],
    [NoBody EXCEPT !.question = JStr(Text1), !.answer = JStr(<<"a">>),
                   !.category = JStr(<<"x">>), !.difficulty = JInt(1)],
    [NoBody EXCEPT !.question = JStr(Text1), !.answer = JStr(<<"a">>),
                   !.category = JInt(1), !.difficulty = JNull] }

SearchBodies ==
  { [NoBody EXCEPT !.searchTerm = t] :
      t \in {JStr(<<"t", "I">>), JNull} }

\* previous_questions a client may send for a category: nothing seen, the
\* first question seen, every question seen, an unknown id.
PreviousLists(rows, c) ==
  LET q == filter_by_category(rows, c)
      ids == [i \in 1..Len(q) |-> q[i].id]
  IN { <<>>, SubSeq(ids, 1, Min(1, Len(ids))), ids, <<id_seq>> }

QuizBodies(rows) ==
  { [NoBody EXCEPT !.quiz_category = JObj(c)] : c \in CategoryIds }
  \cup UNION { { [NoBody EXCEPT !.quiz_category = JObj(c),
                                !.previous_questions = JList(l)] :
                   l \in PreviousLists(rows, c) } : c \in CategoryIds }

\* Identifiers a DELETE names: the two oldest, the newest and one never issued.
DeleteIds == {i \in {1, 2, id_seq - 1, id_seq} : i >= 1}

(***************************************************************************)
(* Initial state: a seeded store and idle workers.                         *)
(***************************************************************************)
SeedQuestion(i) ==
  [id |-> i, question |-> IF i % 2 = 1 THEN Text1 ELSE Text2,
   answer |-> <<"a">>, category |-> IF i = 1 THEN 2 ELSE 1, difficulty |-> 1]

SeedCategories ==
  << [id |-> 1, type |-> "Science"], [id |-> 2, type |-> "Art"] >>

\* A worker's position: the statement it is at, its request, the identifier
\* its insert was given, and (history) the table right after its own write
\* and whether another request has written since.
Idle ==
  [at |-> "idle", req |-> NoReq, id |-> NULL, interleaved |-> FALSE,
   after |-> <<>>]

Seeded(sizes) ==
  /\ \E n \in sizes : /\ question_table = [i \in 1..n |-> SeedQuestion(i)]
                       /\ id_seq = n + 1
  /\ category_table = SeedCategories
  /\ pc = [w \in Workers |-> Idle]
  /\ resp = Sent("none", "none", NoReq, NoKeys)
  /\ deleted = {}
  /\ created = {}

Init == Seeded(0..MaxSeed)

SeqInit == Seeded((BOOKS_PER_PAGE - 1)..(BOOKS_PER_PAGE + MaxOver))

(***************************************************************************)
(* Actions: one per handler, and one per statement of a handler that       *)
(* writes and then reads again.                                            *)
(***************************************************************************)
\* w returns to idle; a write by w is seen by every worker waiting to re-read.
Finish(w) == pc' = [pc EXCEPT ![w] = Idle]

Wrote(w, next) ==
  pc' = [v \in Workers |->
           IF v = w THEN next
           ELSE IF pc[v].at \in {"delete_reread", "create_reread"}
                THEN [pc[v] EXCEPT !.interleaved = TRUE]
                ELSE pc[v]]

GetAllCategories(w) ==
  /\ pc[w].at = "idle"
  /\ resp' = Sent(w, "get_all_categories", NoReq, get_all_categories(category_table))
  /\ UNCHANGED <<question_table, category_table, id_seq, pc, deleted, created>>

GetAllQuestions(w) ==
  /\ pc[w].at = "idle"
  /\ \E category \in CategoryArgs, page \in PageArgs :
       resp' = Sent(w, "get_all_questions",
                    [NoReq EXCEPT !.category = category, !.page = page],
                    get_all_questions(category_table, question_table, category, page))
  /\ UNCHANGED <<question_table, category_table, id_seq, pc, deleted, created>>

\* delete_question, lines 109-112: the lookup.
DeleteLookup(w) ==
  /\ pc[w].at = "idle"
  /\ \E question_id \in DeleteIds, page \in WritePageArgs :
       LET req == [NoReq EXCEPT !.question_id = question_id, !.page = page]
       IN IF one_or_none(question_table, question_id) = <<>>
          THEN /\ resp' = Sent(w, "delete_question", req, delete_question_missing)
               /\ UNCHANGED pc
          ELSE /\ pc' = [pc EXCEPT ![w] = [Idle EXCEPT !.at = "delete_row", !.req = req]]
               /\ UNCHANGED resp
  /\ UNCHANGED <<question_table, category_table, id_seq, deleted, created>>

\* Variant of DeleteRow in which the handler goes on to the re-read without
\* the row having been removed.
DeleteRow_kept(w) ==
  /\ pc[w].at = "delete_row"
  /\ deleted' = deleted \cup {pc[w].req.question_id}
  /\ pc' = [pc EXCEPT ![w] = [pc[w] EXCEPT !.at = "delete_reread",
                                            !.after = question_table]]
  /\ UNCHANGED <<question_table, category_table, id_seq, created, resp>>

\* delete_question, line 114: question.delete().  When another request has
\* removed the row since the lookup, the statement matches no row, which the
\* data access layer either reports as an error or lets pass.
DeleteRow(w) ==
  /\ pc[w].at = "delete_row"
  /\ LET question_id == pc[w].req.question_id
         rows == delete(question_table, question_id)
     IN \/ /\ question_table' = rows
           /\ deleted' = deleted \cup {question_id}
           /\ IF rows # question_table
              THEN Wrote(w, [pc[w] EXCEPT !.at = "delete_reread", !.after = rows])
              ELSE pc' = [pc EXCEPT ![w] = [pc[w] EXCEPT !.at = "delete_reread",
                                                         !.after = rows]]
           /\ UNCHANGED resp
        \/ /\ rows = question_table
           /\ resp' = Sent(w, "delete_question", pc[w].req, try_except(Raised))
           /\ Finish(w)
           /\ UNCHANGED <<question_table, deleted>>
  /\ UNCHANGED <<category_table, id_seq, created>>

\* delete_question, lines 116-124: the re-read and the response.
DeleteReread(w) ==
  /\ pc[w].at = "delete_reread"
  /\ resp' = Sent(w, "delete_question", pc[w].req,
                  delete_question_reread(question_table, pc[w].req.question_id,
                                         pc[w].req.page))
  /\ Finish(w)
  /\ UNCHANGED <<question_table, category_table, id_seq, deleted, created>>

\* handle_post without searchTerm: create_question, lines 131-147.
CreateQuestion(w) ==
  /\ pc[w].at = "idle"
  /\ \E body \in CreateBodies, page \in WritePageArgs, stored \in BOOLEAN :
       LET req == [NoReq EXCEPT !.body = body, !.page = page]
           new == create_question_coerce(body)
       IN IF ~new.ok
          THEN /\ resp' = Sent(w, "create_question", req, Raised)
               /\ UNCHANGED <<question_table, id_seq, pc, created>>
          ELSE IF ~stored
          THEN /\ resp' = Sent(w, "create_question", req, try_except(Raised))
               /\ UNCHANGED <<question_table, id_seq, pc, created>>
          ELSE /\ Cardinality(created) < MaxCreate
               /\ question_table' = insert(question_table, id_seq, new)
               /\ id_seq' = id_seq + 1
               /\ created' = created \cup {id_seq}
               /\ Wrote(w, [Idle EXCEPT !.at = "create_reread", !.req = req,
                                        !.id = id_seq,
                                        !.after = question_table'])
               /\ UNCHANGED resp
  /\ UNCHANGED <<category_table, deleted>>

\* Variant of CreateReread whose query sees the table as it was before the
\* handler's own insert.
CreateReread_stale(w) ==
  /\ pc[w].at = "create_reread"
  /\ resp' = Sent(w, "create_question", pc[w].req,
                  create_question_reread(delete(question_table, pc[w].id),
                                         pc[w].id, pc[w].req.page))
  /\ Finish(w)
  /\ UNCHANGED <<question_table, category_table, id_seq, deleted, created>>

\* create_question, lines 149-157: the re-read and the response.
CreateReread(w) ==
  /\ pc[w].at = "create_reread"
  /\ resp' = Sent(w, "create_question", pc[w].req,
                  create_question_reread(question_table, pc[w].id, pc[w].req.page))
  /\ Finish(w)
  /\ UNCHANGED <<question_table, category_table, id_seq, deleted, created>>

\* handle_post with searchTerm in the body.
SearchQuestions(w) ==
  /\ pc[w].at = "idle"
  /\ \E body \in SearchBodies :
       resp' = Sent(w, "search_questions", [NoReq EXCEPT !.body = body],
                    search_questions(question_table, body))
  /\ UNCHANGED <<question_table, category_table, id_seq, pc, deleted, created>>

GetQuestionsByCategory(w) ==
  /\ pc[w].at = "idle"
  /\ \E category_id \in CategoryIds, page \in PageArgs :
       resp' = Sent(w, "get_questions_by_category",
                    [NoReq EXCEPT !.category_id = category_id, !.page = page],
                    get_questions_by_category(category_table, question_table,
                                              category_id, page))
  /\ UNCHANGED <<question_table, category_table, id_seq, pc, deleted, created>>

PlayQuiz(w) ==
  /\ pc[w].at = "idle"
  /\ \E body \in QuizBodies(question_table) :
       resp' = Sent(w, "play_quiz", [NoReq EXCEPT !.body = body],
                    play_quiz(question_table, body))
  /\ UNCHANGED <<question_table, category_table, id_seq, pc, deleted, created>>

Step(w) ==
    \/ GetAllCategories(w)
    \/ GetAllQuestions(w)
    \/ DeleteLookup(w)
    \/ DeleteRow(w)
    \/ DeleteReread(w)
    \/ CreateQuestion(w)
    \/ CreateReread(w)
    \/ SearchQuestions(w)
    \/ GetQuestionsByCategory(w)
    \/ PlayQuiz(w)

\* Requests are served concurrently, one per worker.
Next == \E w \in Workers : Step(w)

Spec == Init /\ [][Next]_vars

\* Requests served one at a time, on a store around the page boundary.
SeqNext == Step("w1")

SeqSpec == SeqInit /\ [][SeqNext]_vars

(***************************************************************************)
(* Steps of the handlers, as the properties below recognise them.  A       *)
(* handler that answers in the step it starts in leaves pc unchanged.      *)
(***************************************************************************)
Answered(op) == resp' # resp /\ resp'.op = op

Reread(w, at) == pc[w].at = at /\ pc'[w].at = "idle"

IsNotFound(r) ==
  r.status = 404 /\ r.success = FALSE /\ r.error = 404
  /\ r.message = "resource not found"

IsUnprocessable(r) ==
  r.status = 422 /\ r.success = FALSE /\ r.error = 422
  /\ r.message = "unprocessable"

SeqIds(qs) == {qs[i].id : i \in 1..Len(qs)}

\* Identifiers of the questions a response carries.
RespIds(r) == SeqIds(r.questions) \cup SeqIds(r.all_questions) \cup SeqIds(r.question)

\* The slice [(p-1)*10, p*10) of an ordered result set, for p >= 1.
PageOf(rows, p) ==
  [i \in 1..Max(0, Min(Len(rows), p * 10) - (p - 1) * 10) |->
     format(rows[(p - 1) * 10 + i])]

(***************************************************************************)
(* C1: DELETE /questions/{id} on an identifier that is not in the question *)
(* store answers 404 {success: false, error: 404, message: "resource not   *)
(* found"} and leaves the store unchanged.                                 *)
(***************************************************************************)
C1_DeleteMissingIsNotFound ==
  [][(Answered("delete_question") /\ pc' = pc
      /\ resp'.req.question_id \notin Ids(question_table))
     => (IsNotFound(resp') /\ question_table' = question_table)]_vars

(***************************************************************************)
(* C2: once a DELETE has removed a question, its identifier is gone for    *)
(* good: a lookup finds nothing and no later response carries a question   *)
(* with that identifier; the delete response reports success: true and     *)
(* deleted equal to the requested identifier.                              *)
(***************************************************************************)
C2_DeletedStaysGone ==
  [][/\ \A id \in deleted' :
          /\ one_or_none(question_table', id) = <<>>
          /\ (resp' # resp => id \notin RespIds(resp'))
     /\ \A w \in Workers :
          Reread(w, "delete_reread") =>
            /\ resp'.status = 200 /\ resp'.success = TRUE
            /\ resp'.deleted = pc[w].req.question_id
            /\ resp'.deleted \in deleted']_vars

\* Question 1 was deleted and a later unfiltered first page, which would
\* hold it, is served without it.
C2_Witness ==
  /\ 1 \in deleted
  /\ resp.op = "get_all_questions" /\ resp.status = 200
  /\ resp.req.page = Absent
  /\ resp.questions # <<>>
  /\ 1 \notin RespIds(resp)

(***************************************************************************)
(* C3: on GET /questions and GET /categories/{id}/questions, for every     *)
(* page p >= 1 the questions returned are the slice [(p-1)*10, p*10) of    *)
(* the full ordered result set when that slice is not empty, and the       *)
(* answer is 404 "resource not found" when it is empty.  (GET /questions   *)
(* is taken without a category argument, where the result set is the       *)
(* whole store.)                                                           *)
(***************************************************************************)
C3_Paged(r, result) ==
  LET p == args_get_int(r.req.page, 1)
  IN p >= 1 =>
       IF PageOf(result, p) # <<>>
       THEN r.status = 200 /\ r.questions = PageOf(result, p)
       ELSE IsNotFound(r)

C3_PageIsSliceOrNotFound ==
  [][/\ (Answered("get_all_questions") /\ resp'.req.category = Absent)
          => C3_Paged(resp', question_table)
     /\ Answered("get_questions_by_category")
          => C3_Paged(resp', filter_by_category(question_table,
                                                resp'.req.category_id))]_vars

(***************************************************************************)
(* C4: POST /quizzes for a category that has a question, previous_questions*)
(* supplied or omitted (omitted: none seen), answers success: true with    *)
(* the first question of the category in fetch order whose identifier is   *)
(* not in previous_questions, or null when every one is; the identifier    *)
(* returned is never in previous_questions.                                *)
(***************************************************************************)
C4_Expected(rows, body) ==
  LET seen == IF body.previous_questions.t = "list"
              THEN body.previous_questions.l ELSE <<>>
      unseen == SelectSeq(filter_by_category(rows, body.quiz_category.n),
                          LAMBDA q : ~InList(q.id, seen))
  IN IF unseen = <<>> THEN <<>> ELSE <<format(unseen[1])>>

C4_QuizFirstUnseen ==
  [][(Answered("play_quiz")
      /\ resp'.req.body.quiz_category.t = "obj"
      /\ resp'.req.body.previous_questions.t \in {"absent", "list"}
      /\ filter_by_category(question_table, resp'.req.body.quiz_category.n) # <<>>)
     => (resp'.status = 200 /\ resp'.success = TRUE
         /\ resp'.question = C4_Expected(question_table, resp'.req.body))]_vars

(***************************************************************************)
(* C5: POST /quizzes for a category without questions answers 404          *)
(* {success: false, error: 404, message: "resource not found"}.            *)
(***************************************************************************)
C5_QuizEmptyCategoryIsNotFound ==
  [][(Answered("play_quiz")
      /\ resp'.req.body.quiz_category.t = "obj"
      /\ filter_by_category(question_table, resp'.req.body.quiz_category.n) = <<>>)
     => IsNotFound(resp')]_vars

(***************************************************************************)
(* C6: GET /questions with a category argument that is present and         *)
(* non-zero returns only questions of that category, total_questions is    *)
(* the number of questions of that category, and current_category is the   *)
(* one-element list of that category's {id, type}.                         *)
(***************************************************************************)
C6_ListFilteredByCategory ==
  [][(Answered("get_all_questions")
      /\ resp'.req.category # Absent
      /\ args_get_int(resp'.req.category, 0) # 0
      /\ resp'.status = 200)
     => LET c == args_get_int(resp'.req.category, 0)
        IN /\ \A i \in 1..Len(resp'.questions) : resp'.questions[i].category = c
           /\ resp'.total_questions = Len(filter_by_category(question_table, c))
           /\ resp'.current_category =
                categories_format_all(one_or_none(category_table, c))]_vars

(***************************************************************************)
(* C7: a create (POST /questions without searchTerm) whose category or     *)
(* difficulty cannot be coerced to an integer, or whose persistence fails, *)
(* answers 422 {success: false, error: 422, message: "unprocessable"} and  *)
(* adds no question to the store.                                          *)
(***************************************************************************)
C7_CreateFailureIsUnprocessable ==
  [][(Answered("create_question") /\ pc' = pc)
     => (IsUnprocessable(resp') /\ question_table' = question_table)]_vars

(***************************************************************************)
(* C8: with no concurrent request, the success response of a delete and of *)
(* a create carries in total_questions the number of questions in the      *)
(* store after the mutation, at every store size, and the first page of    *)
(* that store as its question list.                                        *)
(***************************************************************************)
C8_TotalIsStoreCount ==
  [][\A w \in Workers :
       (Reread(w, "delete_reread") \/ Reread(w, "create_reread"))
       => (resp'.status = 200
           /\ resp'.total_questions = Len(question_table')
           /\ resp'.all_questions = PageOf(question_table', 1))]_vars

(***************************************************************************)
(* C9: a successful create answers success: true with the identifier the   *)
(* store assigned, which is greater than every identifier issued before it *)
(* (those of deleted questions included), and the created question stays   *)
(* in the full question list until a delete removes it.                    *)
(***************************************************************************)
C9_CreatedIdIsFresh ==
  [][/\ \A new \in created' \ created :
          \A old \in Ids(question_table) \cup deleted \cup created : new > old
     /\ \A id \in created' \ deleted' : id \in Ids(question_table')
     /\ \A w \in Workers :
          Reread(w, "create_reread") =>
            /\ resp'.status = 200 /\ resp'.success = TRUE
            /\ resp'.created \in created'
            /\ resp'.created = pc[w].id
            /\ \A old \in SeqIds(pc[w].after) \ {resp'.created} :
                 resp'.created > old]_vars

\* A create answered after question 1 was deleted: the new identifier is
\* above the deleted one and its question is in the store.
C9_Witness ==
  /\ 1 \in deleted
  /\ resp.op = "create_question" /\ resp.status = 200
  /\ resp.created > 1
  /\ resp.created \in Ids(question_table)

(***************************************************************************)
(* C10: the write and the re-read of delete and create are separate steps. *)
(* When no other request's write falls between them, the page and total of *)
(* the response are those of the store right after the handler's own       *)
(* write; another request's create or delete between them can make the     *)
(* response differ from it.                                                *)
(***************************************************************************)
C10_RereadSeesOwnWrite ==
  [][\A w \in Workers :
       ((Reread(w, "delete_reread") \/ Reread(w, "create_reread"))
        /\ ~pc[w].interleaved)
       => LET page == PageOf(pc[w].after, args_get_int(pc[w].req.page, 1))
          IN /\ resp'.status = 200
             /\ resp'.all_questions = page
             /\ resp'.total_questions = Len(page)]_vars

\* A create on a store of fewer than 10 questions answered with a page
\* that does not hold the created identifier.
C10_Witness ==
  /\ resp.op = "create_question" /\ resp.status = 200
  /\ Len(resp.all_questions) < 10
  /\ resp.req.page = Absent
  /\ resp.created \notin RespIds(resp)

====
